---- MODULE Spec2Model ----
(***************************************************************************)
(* Signal-generation pipeline and scheduler of binance_bot:                *)
(*   core/patterns.py, core/risk.py, core/strategies.py, core/exchange.py, *)
(*   core/database.py, utils/scheduler.py.                                 *)
(*                                                                         *)
(* Numbers.  Candle prices are integers (ticks).  Every price of a         *)
(* TradingSignal and the ATR are carried in units of 1/Unit tick, with     *)
(* Unit = 2 * 14^3: over the series served here (a constant history        *)
(* followed by three free candles) Wilder's ATR and 0.5 * ATR are then     *)
(* exact integers.  Ratios (confidence, position ratio) are exact          *)
(* fractions [num, den].                                                   *)
(***************************************************************************)
EXTENDS Integers, Sequences, FiniteSets, Bags, TLC

(***************************************************************************)
(* Bounds of the model.                                                    *)
(***************************************************************************)
MaxTicks == 2        \* timeframe ticks started in one run
MaxUpdates == 1      \* changes of the data the exchange serves in one run
MaxFaults == 2       \* failures the environment injects in one run
MaxPrice == 10       \* prices 0..MaxPrice of the candles a detector is called on directly
ConfidenceSteps == 100   \* confidences k / ConfidenceSteps passed to calculate_position directly
MaxSends == 3        \* calls of WechatWorkNotifier.send in one run
MaxDepth == 4        \* nested frames of send the interpreter allows before RecursionError
MaxThreads == 3      \* threads that construct DatabaseManager

(***************************************************************************)
(* config/settings.py (Settings) is not among the sources: the values      *)
(* below are one configuration of it.                                      *)
(***************************************************************************)
SYMBOLS == <<"BTC", "ETH", "SOL">>
TIMEFRAMES == {"1h", "1W"}
TOTAL_CAPITAL == 1000
RISK_PARAMS == [tf \in {"1h", "4h"} |->
                   IF tf = "1h" THEN [position_ratio |-> [num |-> 2, den |-> 100], max_leverage |-> 5]
                                ELSE [position_ratio |-> [num |-> 5, den |-> 100], max_leverage |-> 1]]

(***************************************************************************)
(* Program constants.                                                      *)
(***************************************************************************)
MinCandles == 50          \* strategies.py:67   len(current_data) < 50
DefaultLimit == 100       \* strategies.py:107  limit: int = 100
TrendLimit == 200         \* strategies.py:125  _get_ohlcv(symbol, timeframe, 200)
ATRPeriod == 14           \* strategies.py:169  period: int = 14
MaxAttempts == 3          \* exchange.py:35     stop_after_attempt(3)
MaxWorkers == 5           \* database.py:10     ThreadPoolExecutor(max_workers=5)
DefaultMaxLeverage == 3   \* risk.py:24         params.get('max_leverage', 3)
ImportTime == 0           \* strategies.py:29   datetime.now() evaluated once, in the class body

Unit == 2 * ATRPeriod * ATRPeriod * ATRPeriod

higher_tf_map == [tf \in {"5m", "15m", "1h", "4h", "1d"} |->
                    CASE tf = "5m" -> "15m"
                      [] tf = "15m" -> "4h"
                      [] tf = "1h" -> "4h"
                      [] tf = "4h" -> "1d"
                      [] tf = "1d" -> "1W"]

(***************************************************************************)
(* Arithmetic helpers.                                                     *)
(***************************************************************************)
Abs(x) == IF x < 0 THEN -x ELSE x
Max2(a, b) == IF a >= b THEN a ELSE b
Min2(a, b) == IF a <= b THEN a ELSE b

\* fractions [num, den] with den > 0
Frac(n, d) == [num |-> n, den |-> d]
FracLess(a, b) == a.num * b.den < b.num * a.den
FracMax(a, b) == IF FracLess(a, b) THEN b ELSE a    \* Python max(a, b): b only if b > a
FracMin(a, b) == IF FracLess(b, a) THEN b ELSE a    \* Python min(a, b): b only if b < a

\* round(n / d) to the nearest integer, ties to the even one (Python round)
RoundHalfEven(n, d) ==
    LET q == n \div d
        r == n % d
    IN  IF 2 * r < d THEN q
        ELSE IF 2 * r > d THEN q + 1
        ELSE IF q % 2 = 0 THEN q ELSE q + 1

(***************************************************************************)
(* core/patterns.py                                                        *)
(***************************************************************************)
NoPattern == "none"

\* n / d > 3 / 10 for integers n, d with d # 0 (dividing by a negative d turns the
\* comparison round)
Above30Percent(n, d) == IF d > 0 THEN 10 * n > 3 * d ELSE 10 * n < 3 * d

\* a changed detect_pinbar: a wick of exactly twice the body is accepted
detect_pinbar_loose(candle) ==
    LET body == Abs(candle.close - candle.open)
        total_range == candle.high - candle.low
    IN  IF total_range = 0 THEN NoPattern
        ELSE IF Above30Percent(body, total_range) THEN NoPattern
        ELSE IF candle.close > candle.open /\ (candle.open - candle.low) >= 2 * body
             THEN "bullish"
        ELSE IF candle.close < candle.open /\ (candle.high - candle.open) >= 2 * body
             THEN "bearish"
        ELSE NoPattern

detect_pinbar(candle) ==
    LET body == Abs(candle.close - candle.open)
        total_range == candle.high - candle.low
    IN  IF total_range = 0 THEN NoPattern
        ELSE IF Above30Percent(body, total_range) THEN NoPattern      \* body / total_range > 0.3
        ELSE IF candle.close > candle.open /\ (candle.open - candle.low) > 2 * body
             THEN "bullish"
        ELSE IF candle.close < candle.open /\ (candle.high - candle.open) > 2 * body
             THEN "bearish"
        ELSE NoPattern

\* a changed detect_engulfing: the commented-out body (lines 42-58) put back
detect_engulfing_enabled(current, previous) ==
    LET body_current == Abs(current.close - current.open)
        body_prev == Abs(previous.close - previous.open)
    IN  IF body_current <= body_prev THEN NoPattern
        ELSE IF current.close > current.open /\ current.open < previous.close
                /\ current.close > previous.open THEN "BULLISH"
        ELSE IF current.close < current.open /\ current.open > previous.close
                /\ current.close < previous.open THEN "BEARISH"
        ELSE NoPattern

detect_engulfing(current, previous) == NoPattern

\* a changed Upper: the direction string is passed on as the detector wrote it
Verbatim(direction) == direction

Upper(direction) ==
    CASE direction = "bullish" -> "BULLISH"
      [] direction = "bearish" -> "BEARISH"
      [] OTHER -> direction

(***************************************************************************)
(* core/risk.py                                                            *)
(***************************************************************************)
RiskParam(timeframe, name, default) ==
    IF timeframe \in DOMAIN RISK_PARAMS THEN RISK_PARAMS[timeframe][name] ELSE default

\* the same computation with the confidence weighting reversed (1.0 - confidence * 0.2)
calculate_position_reversed(timeframe, confidence) ==
    LET base_ratio == RiskParam(timeframe, "position_ratio", Frac(1, 100))
        adj_num == base_ratio.num * (5 * confidence.den - confidence.num)
        adj_den == base_ratio.den * 5 * confidence.den
        position_size == RoundHalfEven(100 * TOTAL_CAPITAL * adj_num, adj_den)
        leverage == Min2(RiskParam(timeframe, "max_leverage", DefaultMaxLeverage),
                         (3 * confidence.num) \div confidence.den)
    IN  [position_size |-> position_size, leverage |-> leverage]

\* position_size in 1/100 of a currency unit (round(..., 2)); leverage = int(3 * confidence)
calculate_position(timeframe, confidence) ==
    LET base_ratio == RiskParam(timeframe, "position_ratio", Frac(1, 100))
        \* adjusted_ratio = base_ratio * (0.8 + confidence * 0.2)
        adj_num == base_ratio.num * (4 * confidence.den + confidence.num)
        adj_den == base_ratio.den * 5 * confidence.den
        position_size == RoundHalfEven(100 * TOTAL_CAPITAL * adj_num, adj_den)
        leverage == Min2(RiskParam(timeframe, "max_leverage", DefaultMaxLeverage),
                         (3 * confidence.num) \div confidence.den)
    IN  [position_size |-> position_size, leverage |-> leverage]

(***************************************************************************)
(* The exchange's data.  A row is [timestamp, open, high, low, close,      *)
(* volume] as ccxt's fetch_ohlcv returns it.  A series served for the scan *)
(* limit is described by its length n and its last three rows; the rows    *)
(* before them are HistoryRow.  A series served for the trend limit is     *)
(* described by the last values talib.EMA computes from it (talib is not   *)
(* part of the repository).                                                *)
(***************************************************************************)
Row(o, h, l, c) == <<0, o, h, l, c, 0>>
HistoryRow == Row(13, 14, 12, 13)
BullPinRow == Row(14, 15, 11, 15)      \* long lower wick, close > open
BullPinRow2 == Row(15, 16, 12, 16)     \* a second bullish pin bar, other prices
BearPinRow == Row(12, 15, 11, 11)      \* long upper wick, close < open
BigBodyRow == Row(11, 15, 11, 15)      \* body / range = 1
FlatRow == Row(13, 13, 13, 13)         \* range = 0

ScanSeries(n, tail) == [kind |-> "rows", n |-> n, tail |-> tail]
TrendSeries(e50, e200) == [kind |-> "ema", ema50 |-> e50, ema200 |-> e200]

\* the rows of a scan series, oldest first
Rows(d) == [i \in 1..d.n |-> IF i > d.n - 3 THEN d.tail[i - (d.n - 3)] ELSE HistoryRow]

\* the series the exchange may come to serve for a scan key
QuietSeries == ScanSeries(DefaultLimit, <<HistoryRow, HistoryRow, HistoryRow>>)
ShortSeries == ScanSeries(MinCandles - 1, <<HistoryRow, HistoryRow, BullPinRow>>)
EdgeSeries == ScanSeries(MinCandles, <<FlatRow, HistoryRow, BearPinRow>>)
BullSeries == ScanSeries(DefaultLimit, <<HistoryRow, BigBodyRow, BullPinRow>>)
TwoBullSeries == ScanSeries(DefaultLimit, <<BullPinRow, HistoryRow, BullPinRow2>>)
MixedSeries == ScanSeries(DefaultLimit, <<BearPinRow, BigBodyRow, BullPinRow>>)
ScanChoices == {QuietSeries, ShortSeries, EdgeSeries, BullSeries, TwoBullSeries, MixedSeries}

ScanKeys == {<<SYMBOLS[i], tf, DefaultLimit>> : i \in 1..Len(SYMBOLS), tf \in TIMEFRAMES}
TrendKeys == {<<SYMBOLS[i], higher_tf_map[tf], TrendLimit>> :
                 i \in 1..Len(SYMBOLS), tf \in TIMEFRAMES \cap DOMAIN higher_tf_map}
FetchKeys == ScanKeys \cup TrendKeys

(***************************************************************************)
(* talib.ATR: true range from the second row on, the mean of the first     *)
(* `period` true ranges, then Wilder's smoothing.  In 1/Unit tick.         *)
(* NaN (fewer than period + 1 rows) is -1.                                 *)
(***************************************************************************)
NaN == 0 - 1

TrueRange(rows, i) ==
    LET h == rows[i][3]
        l == rows[i][4]
        pc == rows[i - 1][5]
    IN  Max2(h - l, Max2(Abs(h - pc), Abs(l - pc)))

RECURSIVE SumTR(_, _, _)
SumTR(rows, from, to) ==
    IF from > to THEN 0 ELSE TrueRange(rows, from) + SumTR(rows, from + 1, to)

\* Wilder's smoothing atr := (atr * (period - 1) + TR) / period, row by row from
\* row i on.  A row whose true range equals atr leaves it unchanged, so the fold
\* steps from one row that changes it to the next.  (atr is bound as a value by
\* the set constructor, so that it is computed once.)
RECURSIVE Wilder(_, _, _, _)
Wilder(rows, i, prev, period) ==
    CHOOSE result \in
        { LET changing == {j \in i..Len(rows) : TrueRange(rows, j) * Unit # atr}
              j == CHOOSE x \in changing : \A y \in changing : x <= y
          IN  IF changing = {} THEN atr
              ELSE Wilder(rows, j + 1,
                          (atr * (period - 1) + TrueRange(rows, j) * Unit) \div period, period)
          : atr \in {prev} } : TRUE

\* index period + 1 holds the mean of the first `period` true ranges
TalibATR(rows, period) ==
    IF Len(rows) < period + 1 THEN NaN
    ELSE Wilder(rows, period + 2, (SumTR(rows, 2, period + 1) * Unit) \div period, period)

(***************************************************************************)
(* core/exchange.py: get_ohlcv is lru_cache'd, and retried by tenacity     *)
(* around the cache.  `failures` is the number of consecutive attempts the *)
(* exchange fails from now on; a failed attempt caches nothing.            *)
(***************************************************************************)
NotCached == <<>>

\* a changed retry policy: one more attempt after the 3rd failure
get_ohlcv_one_more(cache, served, key, failures) ==
    IF cache[key] # NotCached
    THEN [ok |-> TRUE, data |-> cache[key], cache |-> cache, attempts |-> 0]
    ELSE IF failures <= MaxAttempts
    THEN [ok |-> TRUE, data |-> <<served[key]>>,
          cache |-> [cache EXCEPT ![key] = <<served[key]>>], attempts |-> failures + 1]
    ELSE [ok |-> FALSE, data |-> NotCached, cache |-> cache, attempts |-> MaxAttempts]

get_ohlcv(cache, served, key, failures) ==
    IF cache[key] # NotCached
    THEN [ok |-> TRUE, data |-> cache[key], cache |-> cache, attempts |-> 0]
    ELSE IF failures < MaxAttempts
    THEN [ok |-> TRUE, data |-> <<served[key]>>,
          cache |-> [cache EXCEPT ![key] = <<served[key]>>], attempts |-> failures + 1]
    ELSE [ok |-> FALSE, data |-> NotCached, cache |-> cache, attempts |-> MaxAttempts]

(***************************************************************************)
(* core/strategies.py                                                      *)
(***************************************************************************)
_parse_candle(ohlcv) ==
    [timestamp |-> ohlcv[1], open |-> ohlcv[2], high |-> ohlcv[3],
     low |-> ohlcv[4], close |-> ohlcv[5], volume |-> ohlcv[6]]

\* lines 134-138 of _get_trend, on the last EMA values
\* a changed classification: the thresholds themselves count as a trend
ClassifyTrendInclusive(ema50, ema200) ==
    IF 100 * ema50 >= 102 * ema200 THEN "BULLISH"
    ELSE IF 100 * ema50 <= 98 * ema200 THEN "BEARISH"
    ELSE "NEUTRAL"

ClassifyTrend(ema50, ema200) ==
    IF 100 * ema50 > 102 * ema200 THEN "BULLISH"
    ELSE IF 100 * ema50 < 98 * ema200 THEN "BEARISH"
    ELSE "NEUTRAL"

_get_trend(data) == ClassifyTrend(data.ema50, data.ema200)

\* _calculate_atr: talib.ATR(high, low, close, timeperiod=14)[-1] of the rows
\* fetched; ATRTable holds it for every series the exchange may serve
ATRTable == {<<d, TalibATR(Rows(d), ATRPeriod)>> : d \in ScanChoices}
_calculate_atr(data) == (CHOOSE p \in ATRTable : p[1] = data)[2]

_calculate_stop_loss(candle, direction, atr) ==
    IF Upper(direction) = "BULLISH" THEN candle.low * Unit - atr \div 2
    ELSE candle.high * Unit + atr \div 2

\* a changed _calculate_take_profit: the target is always above the close
take_profit_above(candle, direction, atr) == candle.close * Unit + 3 * atr

_calculate_take_profit(candle, direction, atr) ==
    IF Upper(direction) = "BULLISH" THEN candle.close * Unit + 3 * atr
    ELSE candle.close * Unit - 3 * atr

_calculate_confidence(candle, atr) ==
    LET body_size == Abs(candle.close - candle.open)
        candle_range == candle.high - candle.low
        confidence == IF candle_range # 0 THEN Frac(body_size, candle_range) ELSE Frac(0, 1)
    IN  FracMin(FracMax(confidence, Frac(3, 10)), Frac(9, 10))

\* TradingSignal(...): timestamp is not passed, so it takes the class default
TradingSignal(symbol, timeframe, direction, entry_price, stop_loss, take_profit, position_size, leverage, confidence) ==
    [symbol |-> symbol, timeframe |-> timeframe, direction |-> direction,
     entry_price |-> entry_price, stop_loss |-> stop_loss, take_profit |-> take_profit,
     position_size |-> position_size, leverage |-> leverage, confidence |-> confidence,
     timestamp |-> ImportTime]

\* None is <<>>, a signal s is <<s>>
None == <<>>

_create_signal(symbol, timeframe, direction, candle, trend, atr) ==
    IF trend \notin {"NEUTRAL", Upper(direction)} THEN None
    ELSE LET pos == calculate_position(timeframe, _calculate_confidence(candle, atr))
         IN  <<TradingSignal(symbol, timeframe, Upper(direction), candle.close * Unit,
                             _calculate_stop_loss(candle, direction, atr),
                             _calculate_take_profit(candle, direction, atr),
                             pos.position_size, pos.leverage,
                             _calculate_confidence(candle, atr))>>

_filter_signal(signal, trend) ==
    IF trend \notin {"NEUTRAL", Upper(signal.direction)} THEN FALSE ELSE TRUE

\* max(valid_signals, key=lambda x: x.confidence): the first of the maximal ones
RECURSIVE MaxByConfidence(_, _, _)
MaxByConfidence(signals, i, best) ==
    IF i > Len(signals) THEN best
    ELSE MaxByConfidence(signals, i + 1,
            IF FracLess(best.confidence, signals[i].confidence) THEN signals[i] ELSE best)

\* a changed length test: one candle fewer is accepted
InsufficientDataOffByOne(current_data) == Len(current_data) < MinCandles - 1

\* line 67: len(current_data) < 50
InsufficientData(current_data) == Len(current_data) < MinCandles

(***************************************************************************)
(* Tasks handed to DatabaseManager._pool.                                  *)
(***************************************************************************)
SignalTask(signal) == [impl |-> "_log_signal_impl", signal |-> <<signal>>, level |-> "", message |-> <<>>]
LogTask(level, message) == [impl |-> "_log_message_impl", signal |-> None, level |-> level, message |-> message]

(***************************************************************************)
(* ProfessionalPinBarStrategy.analyze, the body of its try block.          *)
(*   f1, f2 : failing attempts met by the scan fetch and the trend fetch   *)
(*   pf     : self._pool.submit raises inside self.db.log_signal           *)
(* The result records what the call did:                                   *)
(*   ret       the value returned (None when exc # "none")                 *)
(*   exc       the step that raised: "fetch", "trend", "persist" or "none" *)
(*   trend     the trend computed, "" when none was                        *)
(*   fetched   the keys get_ohlcv was called with, in order                *)
(*   attempts  the attempts each of those calls made against the exchange  *)
(*   offered   what the exchange served for the scan key when analyze ran  *)
(*   data      what the scan fetch returned (<<>> when it raised)          *)
(*   received  the number of candles the scan fetch returned               *)
(*   engulfed  the patterns detect_engulfing returned                      *)
(*   detected  the patterns the detector returned, oldest candle first     *)
(*   detects / atrs / persists  calls of detect_pinbar, _calculate_atr,    *)
(*             db.log_signal                                               *)
(*   submitted the tasks handed to the pool                                *)
(***************************************************************************)
Blank(cache) ==
    [ret |-> None, exc |-> "none", raised |-> FALSE, trend |-> "", fetched |-> <<>>,
     attempts |-> <<>>, offered |-> <<>>, data |-> <<>>, received |-> 0, detected |-> <<>>,
     engulfed |-> <<>>, detects |-> 0, atrs |-> 0, persists |-> 0,
     atr |-> NaN, submitted |-> <<>>, cache |-> cache]

analyze_try(symbol, timeframe, cache, served, f1, f2, pf) ==
    LET scanKey == <<symbol, timeframe, DefaultLimit>>
        r1 == get_ohlcv(cache, served, scanKey, f1)
        current_data == r1.data[1]
        rows == Rows(current_data)
        o1 == [Blank(r1.cache) EXCEPT !.fetched = <<scanKey>>, !.attempts = <<r1.attempts>>,
                                      !.offered = <<served[scanKey]>>,
                                      !.data = r1.data,
                                      !.received = IF r1.ok THEN Len(rows) ELSE 0]
        higher_tf == IF timeframe \in DOMAIN higher_tf_map THEN <<higher_tf_map[timeframe]>> ELSE <<>>
        trendKey == <<symbol, higher_tf[1], TrendLimit>>
        r2 == get_ohlcv(r1.cache, served, trendKey, f2)
        o2 == IF higher_tf = <<>> THEN [o1 EXCEPT !.trend = "NEUTRAL"]
              ELSE [o1 EXCEPT !.fetched = <<scanKey, trendKey>>,
                              !.attempts = <<r1.attempts, r2.attempts>>,
                              !.cache = r2.cache,
                              !.trend = IF r2.ok THEN _get_trend(r2.data[1]) ELSE ""]
        \* for i in range(-3, 0): current_data[i]
        candle(i) == _parse_candle(rows[Len(rows) + 1 + i])
        pin(i) == detect_pinbar(candle(i))
        \* _calculate_atr fetches the scan key again: always a cache hit here
        r3 == get_ohlcv(o2.cache, served, scanKey, 0)
        atr == _calculate_atr(r3.data[1])
        \* prev_candle exists for i > -3 only
        engulf(i) == IF i > 0 - 3 THEN detect_engulfing(candle(i), candle(i - 1)) ELSE NoPattern
        found(i) == (IF pin(i) # NoPattern THEN <<<<pin(i), i>>>> ELSE <<>>)
                    \o (IF engulf(i) # NoPattern THEN <<<<engulf(i), i>>>> ELSE <<>>)
        patterns == found(0 - 3) \o found(0 - 2) \o found(0 - 1)
        signals == [k \in 1..Len(patterns) |->
                       _create_signal(symbol, timeframe, patterns[k][1], candle(patterns[k][2]),
                                      o2.trend, atr)]
        built == {k \in 1..Len(patterns) : o2.trend \in {"NEUTRAL", Upper(patterns[k][1])}}
        Keep(s) == s # None /\ _filter_signal(s[1], o2.trend)
        kept == SelectSeq(signals, Keep)
        valid_signals == [k \in 1..Len(kept) |-> kept[k][1]]
        best_signal == MaxByConfidence(valid_signals, 2, valid_signals[1])
        o3 == [o2 EXCEPT !.detects = 3,
                         !.detected = SelectSeq(<<pin(0 - 3), pin(0 - 2), pin(0 - 1)>>,
                                                LAMBDA d : d # NoPattern),
                         !.engulfed = SelectSeq(<<engulf(0 - 2), engulf(0 - 1)>>,
                                                LAMBDA d : d # NoPattern),
                         !.atrs = Cardinality(built),
                         !.atr = IF built = {} THEN NaN ELSE atr,
                         !.fetched = o2.fetched \o [k \in 1..Cardinality(built) |-> scanKey],
                         !.attempts = o2.attempts \o [k \in 1..Cardinality(built) |-> 0]]
    IN  IF ~r1.ok THEN [o1 EXCEPT !.exc = "fetch"]
        ELSE IF InsufficientData(rows) THEN o1
        ELSE IF higher_tf # <<>> /\ ~r2.ok THEN [o2 EXCEPT !.exc = "trend"]
        ELSE IF valid_signals = <<>> THEN o3
        ELSE IF pf THEN [o3 EXCEPT !.persists = 1, !.exc = "persist"]
        ELSE [o3 EXCEPT !.persists = 1, !.ret = <<best_signal>>,
                        !.submitted = <<SignalTask(best_signal)>>]

\* a changed analyze: no except clause, what the body raised reaches the caller
analyze_leaky(symbol, timeframe, cache, served, f1, f2, pf) ==
    LET body == analyze_try(symbol, timeframe, cache, served, f1, f2, pf)
    IN  IF body.exc # "none" THEN [body EXCEPT !.ret = None, !.raised = TRUE] ELSE body

\* analyze: `except Exception` turns whatever the body raised into None
analyze(symbol, timeframe, cache, served, f1, f2, pf) ==
    LET body == analyze_try(symbol, timeframe, cache, served, f1, f2, pf)
    IN  IF body.exc # "none" THEN [body EXCEPT !.ret = None, !.raised = FALSE] ELSE body

(***************************************************************************)
(* utils/scheduler.py                                                      *)
(* A notice is one call of notifier.send(title, content); the content is   *)
(* kept as the values formatted into it.  WechatWorkNotifier.send and      *)
(* ServerChanNotifier.send catch every exception, so a send never raises.  *)
(***************************************************************************)
Notice(title, content) == [title |-> title, content |-> content]

\* a changed _process_signal: the message is sent before db.log_signal is called
_process_signal_notify_first(signal, pf) ==
    [raised |-> pf, persists |-> 1,
     submitted |-> IF pf THEN <<>> ELSE <<SignalTask(signal)>>,
     notices |-> <<Notice("signal", <<signal.symbol, signal.timeframe, signal.direction>>)>>]

\* _process_signal: db.log_signal, then notifier.send; pf: the submit raises
_process_signal(signal, pf) ==
    IF pf
    THEN [raised |-> TRUE, persists |-> 1, submitted |-> <<>>, notices |-> <<>>]
    ELSE [raised |-> FALSE, persists |-> 1, submitted |-> <<SignalTask(signal)>>,
          notices |-> <<Notice("signal", <<signal.symbol, signal.timeframe, signal.direction>>)>>]

(***************************************************************************)
(* One pass of the loop body of _check_timeframe (lines 45-60): the inner  *)
(* try with its handler.  a: the result of strategy.analyze; pf: submit    *)
(* raises in _process_signal; hf: submit raises in the handler's           *)
(* log_message.  raised: an exception leaves the inner try statement.      *)
(***************************************************************************)
\* a changed loop body: no inner try, what the pass raises leaves the loop
check_symbol_unguarded(symbol, timeframe, a, pf, hf) ==
    LET p == IF ~a.raised /\ a.ret # None THEN _process_signal(a.ret[1], pf)
             ELSE [raised |-> FALSE, persists |-> 0, submitted |-> <<>>, notices |-> <<>>]
    IN  [processed |-> ~a.raised /\ a.ret # None, persists |-> p.persists,
         failed |-> a.raised \/ p.raised, caught |-> FALSE, raised |-> a.raised \/ p.raised,
         submitted |-> p.submitted, notices |-> p.notices]

check_symbol(symbol, timeframe, a, pf, hf) ==
    LET p == IF ~a.raised /\ a.ret # None THEN _process_signal(a.ret[1], pf)
             ELSE [raised |-> FALSE, persists |-> 0, submitted |-> <<>>, notices |-> <<>>]
        failed == a.raised \/ p.raised
        err_msg == <<"analysis_failed", symbol, timeframe>>
        base == [processed |-> ~a.raised /\ a.ret # None, persists |-> p.persists,
                 failed |-> failed, caught |-> FALSE, raised |-> FALSE,
                 submitted |-> p.submitted, notices |-> p.notices]
    IN  IF ~failed THEN base
        ELSE IF hf THEN [base EXCEPT !.raised = TRUE]
        ELSE [base EXCEPT !.caught = TRUE,
                          !.submitted = p.submitted \o <<LogTask("ERROR", err_msg)>>,
                          !.notices = p.notices \o <<Notice("error", err_msg)>>]

(***************************************************************************)
(* core/database.py, the pool's side.                                      *)
(***************************************************************************)
\* getattr(signal, name) raises AttributeError for a name the dataclass lacks
HasAttr(signal, name) == name \in DOMAIN signal

\* the tuple _log_signal_impl binds to INSERT INTO signals (lines 71-80)
SignalRow(signal, now) ==
    [timestamp |-> now, symbol |-> signal.symbol, timeframe |-> signal.timeframe,
     signal_type |-> signal.signal_type, entry_price |-> signal.entry_price,
     stop_loss |-> signal.stop_loss, take_profit |-> signal.take_profit,
     position_size |-> signal.position_size, leverage |-> signal.leverage,
     confidence |-> signal.confidence]

LogRow(level, message, now) == [timestamp |-> now, level |-> level, message |-> message]

\* _log_signal_impl(signal); wf: sqlite raises; sf: self._pool.submit raises
\* inside the handler's self.log_message.  Any exception of the write is answered
\* by self.log_message("ERROR", ...); one raised by that call leaves the task
\* (the pool keeps it in the task's Future, which nobody reads).
_log_signal_impl(signal, now, wf, sf) ==
    IF ~HasAttr(signal, "signal_type") \/ wf
    THEN IF sf
         THEN [rows |-> <<>>, failed |-> TRUE, submitted |-> <<>>, printed |-> 0, escaped |-> TRUE]
         ELSE [rows |-> <<>>, failed |-> TRUE,
               submitted |-> <<LogTask("ERROR", <<"signal_write_failed">>)>>,
               printed |-> 0, escaped |-> FALSE]
    ELSE [rows |-> <<SignalRow(signal, now)>>, failed |-> FALSE, submitted |-> <<>>,
          printed |-> 0, escaped |-> FALSE]

\* _log_message_impl(level, message); wf: sqlite raises.  Any exception is printed.
_log_message_impl(level, message, now, wf) ==
    IF wf THEN [rows |-> <<>>, failed |-> TRUE, submitted |-> <<>>, printed |-> 1, escaped |-> FALSE]
    ELSE [rows |-> <<LogRow(level, message, now)>>, failed |-> FALSE, submitted |-> <<>>,
          printed |-> 0, escaped |-> FALSE]

(***************************************************************************)
(* State.                                                                  *)
(***************************************************************************)
VARIABLES
    served,     \* what the exchange serves now, by (symbol, timeframe, limit)
    cache,      \* lru_cache of get_ohlcv
    pool,       \* DatabaseManager._pool: the tasks submitted and not yet run
    signals,    \* table signals: a bag of rows
    logs,       \* table logs: a bag of rows
    console,    \* lines printed by _log_message_impl's fallback
    written,    \* the signals whose _log_signal_impl has run
    clock,      \* the time, which every start of a tick advances by one
    updates,    \* changes of `served` so far
    faults,     \* failures injected so far
    tick,       \* per timeframe: the running or last call of _check_timeframe
    job,        \* the last task a worker of the pool ran, and how it went
    probe,      \* the last direct call of a pure function, and its result
    wechat,     \* the WechatWorkNotifier and its running or last call of send
    manager     \* class DatabaseManager and the threads constructing it

vars == <<served, cache, pool, signals, logs, console, written, clock, updates, faults, tick,
          job, probe, wechat, manager>>

NoJob == [task |-> <<>>, failed |-> FALSE, submitted |-> <<>>, printed |-> 0, escaped |-> FALSE]
NoProbe == [call |-> "", args |-> <<>>, result |-> <<>>]

\* pc: "new" before WechatWorkNotifier() ran, "idle" between calls of send,
\*     "running" while a frame of send is about to run its body
\* depth / posts / refreshes: frames of send entered, requests.post calls and
\*     _get_access_token calls made by the running or last call of send
\* the threads that call DatabaseManager()
Threads == 1..MaxThreads

\* instance : hasattr(cls, "_instance")
\* created  : objects made by super().__new__(cls);  inits: calls of _init_db
\* lock     : the thread holding _instance_lock, 0 when it is free
\* tables   : the tables that exist;  finished: _init_db has returned
\* pc       : per thread, the line of __new__ / _init_db it is about to run
\* got      : per thread, <<>> or what the instance was like when __new__ returned it
NoManager ==
    [instance |-> FALSE, created |-> 0, inits |-> 0, lock |-> 0, tables |-> {},
     finished |-> FALSE, pc |-> [t \in Threads |-> "l14"], got |-> [t \in Threads |-> <<>>]]

NoNotifier ==
    [pc |-> "new", access_token |-> FALSE, title |-> "", depth |-> 0, posts |-> 0,
     refreshes |-> 0, result |-> <<>>, calls |-> 0]

\* at: the clock when the pass ran (analyze was called and built its signals)
NoStep ==
    [symbol |-> "", a |-> Blank(<<>>), processed |-> FALSE, persists |-> 0, failed |-> FALSE,
     caught |-> FALSE, raised |-> FALSE, notices |-> <<>>, submitted |-> <<>>, at |-> 0]

\* running: the call is in its loop, about to handle SYMBOLS[idx]
\* ending : "" while running or never run; "returned" (the loop finished),
\*          "crashed" (the outer handler ran), "escaped" (an exception left the call)
\* origin : where the exception that ended it was raised: "opening", "handler"
\* analysed / returned / forwarded : the symbols analyze was called for, those it
\*          returned a signal for, those whose signal went out through the notifier
\* failed / caught / unhandled : the symbols whose pass raised inside the inner
\*          try, those whose handler completed, those whose handler's
\*          log_message raised
\* last   : what the loop did for the last symbol it handled
FreshTick ==
    [running |-> FALSE, idx |-> 1, started |-> 0, ending |-> "", origin |-> "",
     analysed |-> {}, returned |-> {}, forwarded |-> {}, failed |-> {}, caught |-> {},
     unhandled |-> {}, critical |-> <<>>, last |-> NoStep]

InitServed ==
    [k \in FetchKeys |->
        CASE k = <<"BTC", "1h", DefaultLimit>> -> BullSeries
          [] k = <<"ETH", "1h", DefaultLimit>> -> MixedSeries
          [] k = <<"SOL", "1h", DefaultLimit>> -> BullSeries
          [] k = <<"BTC", "1W", DefaultLimit>> -> TwoBullSeries
          [] k = <<"ETH", "1W", DefaultLimit>> -> ShortSeries
          [] k = <<"SOL", "1W", DefaultLimit>> -> EdgeSeries
          [] k = <<"BTC", "4h", TrendLimit>> -> TrendSeries(103, 100)
          [] OTHER -> TrendSeries(97, 100)]

InitCommon ==
    /\ served = InitServed
    /\ cache = [k \in FetchKeys |-> NotCached]
    /\ pool = <<>>
    /\ signals = EmptyBag
    /\ logs = EmptyBag
    /\ console = 0
    /\ written = {}
    /\ tick = [tf \in TIMEFRAMES |-> FreshTick]
    /\ job = NoJob
    /\ probe = NoProbe
    /\ wechat = NoNotifier
    /\ manager = NoManager

Init == InitCommon /\ clock = 0 /\ updates = 0 /\ faults = 0

Cost(b) == IF b THEN 1 ELSE 0
Injectable(n) == IF faults + n <= MaxFaults THEN BOOLEAN ELSE {FALSE}
Failures(n) == IF faults + n <= MaxFaults THEN 0..MaxAttempts ELSE {0}

(***************************************************************************)
(* The exchange: the series served for one key moves on to the next one.   *)
(***************************************************************************)
ScanOrder == <<QuietSeries, BullSeries, MixedSeries, TwoBullSeries, EdgeSeries, ShortSeries>>
\* (EMA50, EMA200) flat, above, below, and on both thresholds
TrendOrder == <<TrendSeries(100, 100), TrendSeries(103, 100), TrendSeries(98, 100),
                TrendSeries(97, 100), TrendSeries(102, 100)>>
After(order, d) ==
    LET i == CHOOSE j \in 1..Len(order) : order[j] = d
    IN  order[(i % Len(order)) + 1]

MarketUpdate ==
    /\ updates < MaxUpdates
    /\ \E k \in FetchKeys :
         served' = [served EXCEPT ![k] =
                       After(IF k \in TrendKeys THEN TrendOrder ELSE ScanOrder, served[k])]
    /\ updates' = updates + 1
    /\ UNCHANGED <<cache, pool, signals, logs, console, written, clock, faults, tick, job, probe, wechat, manager>>

(***************************************************************************)
(* _check_timeframe(timeframe), entry: the opening log_message (line 35,   *)
(* before the try), then the configuration lookup (never empty for a       *)
(* scheduled timeframe).  of: the submit of the opening log raises.        *)
(***************************************************************************)
TickStart(tf) ==
    /\ ~tick[tf].running
    /\ clock < MaxTicks
    /\ clock' = clock + 1
    /\ \E of \in Injectable(1) :
         /\ faults' = faults + Cost(of)
         /\ IF of
            THEN /\ tick' = [tick EXCEPT ![tf] = [FreshTick EXCEPT !.started = clock + 1,
                                  !.ending = "escaped", !.origin = "opening"]]
                 /\ pool' = pool
            ELSE /\ tick' = [tick EXCEPT ![tf] = [FreshTick EXCEPT !.started = clock + 1,
                                  !.running = TRUE]]
                 /\ pool' = Append(pool, LogTask("INFO", <<"check_started", tf>>))
    /\ UNCHANGED <<served, cache, signals, logs, console, written, updates, job, probe, wechat, manager>>

(***************************************************************************)
(* _check_timeframe, one symbol of the loop, and what follows it: the next *)
(* symbol, the return after the last one, or the outer handler (lines      *)
(* 62-64; cf: the submit of its log_message raises).                       *)
(***************************************************************************)
TickSymbol(tf) ==
    /\ tick[tf].running
    /\ LET t == tick[tf]
           symbol == SYMBOLS[t.idx]
           scanKey == <<symbol, tf, DefaultLimit>>
           trendKey == <<symbol, higher_tf_map[tf], TrendLimit>>
       IN  \E f1 \in (IF cache[scanKey] = NotCached THEN Failures(1) ELSE {0}) :
           \E f2 \in (IF tf \in DOMAIN higher_tf_map /\ cache[trendKey] = NotCached
                      THEN Failures(1 + Cost(f1 > 0)) ELSE {0}) :
           \E pf1 \in Injectable(1 + Cost(f1 > 0) + Cost(f2 > 0)) :
           \E a \in {analyze(symbol, tf, cache, served, f1, f2, pf1)} :
           \E pf2 \in (IF a.raised \/ a.ret = None THEN {FALSE}
                       ELSE Injectable(1 + Cost(f1 > 0) + Cost(f2 > 0))) :
           \E hf \in (IF a.raised \/ pf2 THEN Injectable(1 + Cost(f1 > 0) + Cost(f2 > 0) + Cost(pf2))
                      ELSE {FALSE}) :
           \E cf \in (IF hf THEN Injectable(2 + Cost(f1 > 0) + Cost(f2 > 0) + Cost(pf2))
                      ELSE {FALSE}) :
           \E c \in {check_symbol(symbol, tf, a, pf2, hf)} :
           LET step == [symbol |-> symbol, a |-> [a EXCEPT !.cache = <<>>, !.submitted = <<>>],
                        processed |-> c.processed, persists |-> c.persists,
                        failed |-> c.failed, caught |-> c.caught, raised |-> c.raised,
                        notices |-> c.notices, submitted |-> a.submitted \o c.submitted,
                        at |-> clock]
               crash == <<"check_crashed", tf>>
               t1 == [t EXCEPT !.last = step,
                               !.analysed = @ \cup {symbol},
                               !.returned = IF a.ret # None THEN @ \cup {symbol} ELSE @,
                               !.forwarded = IF c.notices # <<>> /\ c.notices[1].title = "signal"
                                             THEN @ \cup {symbol} ELSE @,
                               !.failed = IF c.failed THEN @ \cup {symbol} ELSE @,
                               !.caught = IF c.caught THEN @ \cup {symbol} ELSE @,
                               !.unhandled = IF hf THEN @ \cup {symbol} ELSE @]
           IN  /\ pf1 => a.persists > 0          \* a fault is injected only where it is met
               /\ (f2 > 0) => Len(a.fetched) > 1
               /\ faults' = faults + Cost(f1 > 0) + Cost(f2 > 0) + Cost(pf1) + Cost(pf2)
                                   + Cost(hf) + Cost(cf)
               /\ cache' = a.cache
               /\ IF ~c.raised
                  THEN /\ pool' = pool \o step.submitted
                       /\ tick' = [tick EXCEPT ![tf] =
                            IF t.idx < Len(SYMBOLS)
                            THEN [t1 EXCEPT !.idx = t.idx + 1]
                            ELSE [t1 EXCEPT !.running = FALSE, !.ending = "returned"]]
                  ELSE IF ~cf
                  THEN /\ pool' = pool \o step.submitted \o <<LogTask("CRITICAL", crash)>>
                       /\ tick' = [tick EXCEPT ![tf] =
                            [t1 EXCEPT !.running = FALSE, !.ending = "crashed",
                                       !.origin = "handler",
                                       !.critical = <<Notice("error", crash)>>]]
                  ELSE /\ pool' = pool \o step.submitted
                       /\ tick' = [tick EXCEPT ![tf] =
                            [t1 EXCEPT !.running = FALSE, !.ending = "escaped",
                                       !.origin = "handler"]]
    /\ UNCHANGED <<served, signals, logs, console, written, clock, updates, job, probe, wechat, manager>>

(***************************************************************************)
(* One worker of DatabaseManager._pool runs a submitted task.  The pool    *)
(* has MaxWorkers threads taking tasks in submission order, so any of the  *)
(* first MaxWorkers pending tasks may be the next to complete.             *)
(* wf: sqlite raises inside the task; sf: the task's own submit raises.    *)
(***************************************************************************)
Without(seq, i) == SubSeq(seq, 1, i - 1) \o SubSeq(seq, i + 1, Len(seq))
Insert(table, rows) == IF rows = <<>> THEN table ELSE table (+) SetToBag({rows[1]})

DbWorker ==
    \E i \in 1..Min2(Len(pool), MaxWorkers) :
    \E wf \in Injectable(1) :
    \E sf \in (IF pool[i].impl = "_log_signal_impl" THEN Injectable(1 + Cost(wf)) ELSE {FALSE}) :
        LET task == pool[i]
        IN  /\ faults' = faults + Cost(wf) + Cost(sf)
            /\ IF task.impl = "_log_signal_impl"
               THEN \E r \in {_log_signal_impl(task.signal[1], clock, wf, sf)} :
                      /\ signals' = Insert(signals, r.rows)
                      /\ pool' = Without(pool, i) \o r.submitted
                      /\ written' = written \cup {task.signal[1]}
                      /\ job' = [task |-> <<task>>, failed |-> r.failed, submitted |-> r.submitted,
                                 printed |-> r.printed, escaped |-> r.escaped]
                      /\ UNCHANGED <<logs, console>>
               ELSE \E r \in {_log_message_impl(task.level, task.message, clock, wf)} :
                      /\ logs' = Insert(logs, r.rows)
                      /\ console' = console + r.printed
                      /\ pool' = Without(pool, i)
                      /\ job' = [task |-> <<task>>, failed |-> r.failed, submitted |-> r.submitted,
                                 printed |-> r.printed, escaped |-> r.escaped]
                      /\ UNCHANGED <<signals, written>>
            /\ UNCHANGED <<served, cache, clock, updates, tick, probe, wechat, manager>>

Next ==
    \/ MarketUpdate
    \/ \E tf \in TIMEFRAMES : TickStart(tf)
    \/ \E tf \in TIMEFRAMES : TickSymbol(tf)

Spec == Init /\ [][Next]_vars

(***************************************************************************)
(* The store's side: the ticks and the pool's workers, with the exchange   *)
(* data fixed, at most one failure, and time for one tick.                 *)
(***************************************************************************)
InitStore == InitCommon /\ clock = MaxTicks - 1 /\ updates = MaxUpdates /\ faults = MaxFaults - 1

NextStore ==
    \/ \E tf \in TIMEFRAMES : TickStart(tf)
    \/ \E tf \in TIMEFRAMES : TickSymbol(tf)
    \/ DbWorker

SpecStore == InitStore /\ [][NextStore]_vars
(***************************************************************************)
(* The pure functions, called directly on bounded inputs: one call in a    *)
(* run, kept in `probe` with its arguments and its result.                 *)
(***************************************************************************)
Prices == 0..MaxPrice

PinbarCall ==
    /\ probe = NoProbe
    /\ \E o \in Prices, h \in Prices, l \in Prices, c \in Prices :
         LET candle == _parse_candle(Row(o, h, l, c))
         IN  probe' = [call |-> "detect_pinbar", args |-> <<candle>>,
                       result |-> <<detect_pinbar(candle)>>]
    /\ UNCHANGED <<served, cache, pool, signals, logs, console, written, clock, updates,
                   faults, tick, job, wechat, manager>>

\* the confidences k / ConfidenceSteps that lie in [0.3, 0.9]
Confidences ==
    {Frac(k, ConfidenceSteps) : k \in {j \in 0..ConfidenceSteps :
                                        /\ 10 * j >= 3 * ConfidenceSteps
                                        /\ 10 * j <= 9 * ConfidenceSteps}}

\* the timeframes a caller can pass: configured ones and scheduled ones
RiskTimeframes == DOMAIN RISK_PARAMS \cup TIMEFRAMES

PositionCall ==
    /\ probe = NoProbe
    /\ \E timeframe \in RiskTimeframes, confidence \in Confidences :
         probe' = [call |-> "calculate_position", args |-> <<timeframe, confidence>>,
                   result |-> <<calculate_position(timeframe, confidence)>>]
    /\ UNCHANGED <<served, cache, pool, signals, logs, console, written, clock, updates,
                   faults, tick, job, wechat, manager>>

NextCalls ==
    \/ PinbarCall
    \/ PositionCall

SpecCalls == Init /\ [][NextCalls]_vars

(***************************************************************************)
(* utils/notifiers.py: WechatWorkNotifier.  The server's answers are the   *)
(* environment's choice at every request.                                  *)
(***************************************************************************)
Titles == {"signal", "error"}
\* errcode 0, errcode 42001, another errcode, no usable response (an exception)
Answers == {"ok", "expired", "refused", "unreachable"}

\* __init__: self.access_token = self._get_access_token(), a token or None
WechatInit ==
    /\ wechat.pc = "new"
    /\ \E got \in BOOLEAN : wechat' = [wechat EXCEPT !.pc = "idle", !.access_token = got]
    /\ UNCHANGED <<served, cache, pool, signals, logs, console, written, clock, updates,
                   faults, tick, job, probe, manager>>

\* a caller enters send(title, content)
SendCall ==
    /\ wechat.pc = "idle"
    /\ wechat.calls < MaxSends
    /\ \E title \in Titles :
         wechat' = [wechat EXCEPT !.pc = "running", !.title = title, !.depth = 1, !.posts = 0,
                                  !.refreshes = 0, !.result = <<>>]
    /\ UNCHANGED <<served, cache, pool, signals, logs, console, written, clock, updates,
                   faults, tick, job, probe, manager>>

\* every frame returns what its inner frame returned, so the call ends with b
Returned(w, b) == [w EXCEPT !.pc = "idle", !.result = <<b>>, !.calls = w.calls + 1]

\* the body of send in the innermost frame (lines 75-111)
send(w, answer, got) ==
    IF ~w.access_token THEN Returned(w, FALSE)
    ELSE LET posted == [w EXCEPT !.posts = w.posts + 1]
             refreshed == [posted EXCEPT !.access_token = got, !.refreshes = w.refreshes + 1]
         IN  IF answer = "ok" THEN Returned(posted, TRUE)
             ELSE IF answer = "expired"
             THEN \* return self.send(title, content): the call is inside the try, so
                  \* the RecursionError of a frame too many is caught at line 109
                  IF w.depth >= MaxDepth THEN Returned(refreshed, FALSE)
                  ELSE [refreshed EXCEPT !.depth = w.depth + 1]
             ELSE Returned(posted, FALSE)

SendFrame ==
    /\ wechat.pc = "running"
    /\ \E answer \in Answers, got \in BOOLEAN : wechat' = send(wechat, answer, got)
    /\ UNCHANGED <<served, cache, pool, signals, logs, console, written, clock, updates,
                   faults, tick, job, probe, manager>>

NextSend ==
    \/ WechatInit
    \/ SendCall
    \/ SendFrame

SpecSend == Init /\ [][NextSend]_vars

(***************************************************************************)
(* core/database.py: DatabaseManager.__new__ and _init_db, run by several  *)
(* threads.  One action is one step a thread takes between two points      *)
(* where another thread can run.                                           *)
(***************************************************************************)
ManagerFrame == <<served, cache, pool, signals, logs, console, written, clock, updates,
                  faults, tick, job, probe, wechat>>

\* line 14: if not hasattr(cls, "_instance")
FirstCheck(t) ==
    /\ manager.pc[t] = "l14"
    /\ manager' = [manager EXCEPT !.pc[t] = IF manager.instance THEN "l19" ELSE "l15"]
    /\ UNCHANGED ManagerFrame

\* line 15: with cls._instance_lock
Acquire(t) ==
    /\ manager.pc[t] = "l15"
    /\ manager.lock = 0
    /\ manager' = [manager EXCEPT !.lock = t, !.pc[t] = "l16"]
    /\ UNCHANGED ManagerFrame

\* line 16: the check again, under the lock
SecondCheck(t) ==
    /\ manager.pc[t] = "l16"
    /\ manager' = IF manager.instance
                  THEN [manager EXCEPT !.lock = 0, !.pc[t] = "l19"]
                  ELSE [manager EXCEPT !.pc[t] = "l17"]
    /\ UNCHANGED ManagerFrame

\* line 17: cls._instance = super().__new__(cls)
Create(t) ==
    /\ manager.pc[t] = "l17"
    /\ manager' = [manager EXCEPT !.instance = TRUE, !.created = manager.created + 1,
                                  !.pc[t] = "l18"]
    /\ UNCHANGED ManagerFrame

\* lines 18, 23: _init_db is entered and opens its connection; sqlite3.connect may
\* raise, and the exception leaves __new__ through the with block
Connect(t) ==
    /\ manager.pc[t] = "l18"
    /\ \E opened \in BOOLEAN :
         manager' = IF opened
                    THEN [manager EXCEPT !.inits = manager.inits + 1, !.pc[t] = "l26"]
                    ELSE [manager EXCEPT !.inits = manager.inits + 1, !.lock = 0,
                                         !.pc[t] = "raised"]
    /\ UNCHANGED ManagerFrame

\* lines 26-40 and 42-49: CREATE TABLE IF NOT EXISTS signals, then logs
CreateTable(t) ==
    /\ manager.pc[t] \in {"l26", "l42"}
    /\ manager' = IF manager.pc[t] = "l26"
                  THEN [manager EXCEPT !.tables = manager.tables \cup {"signals"}, !.pc[t] = "l42"]
                  ELSE [manager EXCEPT !.tables = manager.tables \cup {"logs"}, !.pc[t] = "l50"]
    /\ UNCHANGED ManagerFrame

\* line 50: conn.commit(); _init_db returns and the with block releases the lock
Commit(t) ==
    /\ manager.pc[t] = "l50"
    /\ manager' = [manager EXCEPT !.finished = TRUE, !.lock = 0, !.pc[t] = "l19"]
    /\ UNCHANGED ManagerFrame

\* line 19: return cls._instance
Return(t) ==
    /\ manager.pc[t] = "l19"
    /\ manager' = [manager EXCEPT !.pc[t] = "done",
                                  !.got[t] = <<[finished |-> manager.finished,
                                                tables |-> manager.tables]>>]
    /\ UNCHANGED ManagerFrame

NextManager ==
    \/ \E t \in Threads : FirstCheck(t)
    \/ \E t \in Threads : Acquire(t)
    \/ \E t \in Threads : SecondCheck(t)
    \/ \E t \in Threads : Create(t)
    \/ \E t \in Threads : Connect(t)
    \/ \E t \in Threads : CreateTable(t)
    \/ \E t \in Threads : Commit(t)
    \/ \E t \in Threads : Return(t)

SpecManager == Init /\ [][NextManager]_vars

(***************************************************************************)
(* Properties.                                                             *)
(***************************************************************************)
Ended(t) == ~t.running /\ t.ending # ""
Position(symbol) == CHOOSE i \in 1..Len(SYMBOLS) : SYMBOLS[i] = symbol
Later(symbol) == {SYMBOLS[j] : j \in (Position(symbol) + 1)..Len(SYMBOLS)}

\* what a failed pass must leave to the symbols after it
Unharmed(t, symbol) ==
    /\ symbol \in t.analysed
    /\ (symbol \in t.returned \ t.failed) => symbol \in t.forwarded

IsErrorLogFor(task, symbol) ==
    /\ task.impl = "_log_message_impl"
    /\ task.level = "ERROR"
    /\ task.message # <<>> /\ symbol \in {task.message[k] : k \in 1..Len(task.message)}

IsErrorNoticeFor(notice, symbol) ==
    /\ notice.title = "error"
    /\ symbol \in {notice.content[k] : k \in 1..Len(notice.content)}

\* C2: whenever the analysis of a symbol met an exception in a tick, that pass of
\* the loop submitted an ERROR log entry to the store and sent an error report
\* naming the symbol through the notifier.
C2_AnalysisFailureReported ==
    \A tf \in TIMEFRAMES :
        LET step == tick[tf].last
        IN  step.a.exc # "none" =>
              /\ \E k \in 1..Len(step.submitted) : IsErrorLogFor(step.submitted[k], step.symbol)
              /\ \E k \in 1..Len(step.notices) : IsErrorNoticeFor(step.notices[k], step.symbol)

\* C3: analyze never lets an exception reach its caller; whichever step raised,
\* it returns None.
C3_AnalyzeNeverRaises ==
    \A tf \in TIMEFRAMES :
        LET a == tick[tf].last.a
        IN  /\ ~a.raised
            /\ a.exc # "none" => a.ret = None

\* a pass whose analysis built a signal and met a failing log_signal
C3_FailedStepSeen ==
    \E tf \in TIMEFRAMES :
        /\ tick[tf].last.a.exc = "persist"
        /\ tick[tf].last.a.atrs > 0
        /\ tick[tf].last.a.ret = None
        /\ tick[tf].last.symbol \in tick[tf].analysed

AllOf(seq, value) == seq # <<>> /\ \A k \in 1..Len(seq) : seq[k] = value

C5_PersistedOnce ==
    \A tf \in TIMEFRAMES :
        LET step == tick[tf].last
        IN  step.a.ret # None => step.a.persists + step.persists = 1

\* the row read back as a signal: the schema's signal_type column is the direction
RowMatches(row, signal) ==
    /\ row.symbol = signal.symbol
    /\ row.timeframe = signal.timeframe
    /\ row.signal_type = signal.direction
    /\ row.entry_price = signal.entry_price
    /\ row.stop_loss = signal.stop_loss
    /\ row.take_profit = signal.take_profit
    /\ row.position_size = signal.position_size
    /\ row.leverage = signal.leverage
    /\ row.confidence = signal.confidence
    /\ row.timestamp = signal.timestamp

\* C6: once the asynchronous write of log_signal(s) has run, table signals holds
\* a row whose fields equal those of s.
C6_SignalRoundTrip ==
    \A s \in written : \E row \in BagToSet(signals) : RowMatches(row, s)

\* C7: every signal analyze returns has a leverage of at least 1.
C7_LeverageAtLeastOne ==
    \A tf \in TIMEFRAMES :
        tick[tf].last.a.ret # None => tick[tf].last.a.ret[1].leverage >= 1

\* the candles of the last three rows cached for the scan of a pass
ScannedCandles(step, tf) ==
    LET data == cache[<<step.symbol, tf, DefaultLimit>>]
    IN  IF data = NotCached THEN {}
        ELSE {_parse_candle(data[1].tail[k]) : k \in 1..3}

ValidCandle(candle) ==
    /\ candle.high >= Max2(candle.open, candle.close)
    /\ Min2(candle.open, candle.close) >= candle.low

\* C8: a signal analyze returns from valid candles with ATR > 0 has its entry at
\* the close of a pattern candle of its direction, and stop_loss < entry_price <
\* take_profit if BULLISH, take_profit < entry_price < stop_loss if BEARISH.
C8_PriceOrdering ==
    \A tf \in TIMEFRAMES :
        LET step == tick[tf].last
            s == step.a.ret[1]
        IN  (/\ step.a.ret # None
             /\ step.a.atr > 0
             /\ \A candle \in ScannedCandles(step, tf) : ValidCandle(candle)) =>
              /\ \E candle \in ScannedCandles(step, tf) :
                   /\ detect_pinbar(candle) # NoPattern
                   /\ Upper(detect_pinbar(candle)) = s.direction
                   /\ s.entry_price = candle.close * Unit
              /\ s.direction = "BULLISH" => s.stop_loss < s.entry_price /\ s.entry_price < s.take_profit
              /\ s.direction = "BEARISH" => s.take_profit < s.entry_price /\ s.entry_price < s.stop_loss

\* a BEARISH signal returned with a positive ATR
C8_BearishSignalReturned ==
    \E tf \in TIMEFRAMES :
        /\ tick[tf].last.a.ret # None
        /\ tick[tf].last.a.ret[1].direction = "BEARISH"
        /\ tick[tf].last.a.atr > 0
        /\ tick[tf].last.a.ret[1].stop_loss > tick[tf].last.a.ret[1].entry_price

\* C9: when the scan fetch returns fewer than 50 candles, analyze returns None
\* having fetched nothing else, detected nothing, computed no ATR and recorded
\* no signal.
C9_ShortHistoryAborts ==
    \A tf \in TIMEFRAMES :
        LET a == tick[tf].last.a
        IN  (a.fetched # <<>> /\ a.exc # "fetch" /\ a.received < MinCandles) =>
              /\ a.ret = None
              /\ a.exc = "none"
              /\ Len(a.fetched) = 1
              /\ a.detects = 0 /\ a.detected = <<>>
              /\ a.atrs = 0
              /\ a.persists = 0
              /\ tick[tf].last.submitted = <<>>

\* a pass that received one candle fewer than the minimum, the last of them a pin bar
C9_ShortHistorySeen ==
    \E tf \in TIMEFRAMES :
        /\ tick[tf].last.a.received = MinCandles - 1
        /\ tick[tf].last.a.ret = None
        /\ \E candle \in ScannedCandles(tick[tf].last, tf) : detect_pinbar(candle) # NoPattern

\* C10: a tick ended by an exception raised outside the per-symbol handling (in
\* the opening log call, or inside the per-symbol handler) has run the outer
\* handler: the CRITICAL entry is submitted, the report is sent, the exception
\* has not left _check_timeframe; and a tick of any timeframe not running can
\* still be started.
C10_TickFailureContained ==
    \A tf \in TIMEFRAMES :
        tick[tf].origin # "" =>
            /\ tick[tf].ending = "crashed"
            /\ tick[tf].critical # <<>>
            /\ \E k \in 1..Len(pool) : pool[k].level = "CRITICAL"
            /\ \A other \in TIMEFRAMES :
                 (~tick[other].running /\ clock < MaxTicks) => ENABLED TickStart(other)

\* C11: a failing write never leaves its task as an exception; every failed
\* signal write has an ERROR log entry submitted for it, and every failed log
\* write is printed on the console.
C11_WritesAreBestEffort ==
    job.task # <<>> =>
        /\ ~job.escaped
        /\ (job.task[1].impl = "_log_signal_impl" /\ job.failed) =>
             \E k \in 1..Len(job.submitted) :
                 /\ job.submitted[k].impl = "_log_message_impl"
                 /\ job.submitted[k].level = "ERROR"
        /\ (job.task[1].impl = "_log_message_impl" /\ job.failed) => job.printed = 1

\* the signal built from the k-th of the last three candles a pass scanned
\* (oldest first), <<>> if that candle shows no pin bar or fails the trend filter
Candidate(step, tf, k) ==
    LET candle == _parse_candle(step.a.data[1].tail[k])
        pattern == detect_pinbar(candle)
        made == _create_signal(step.symbol, tf, pattern, candle, step.a.trend, step.a.atr)
    IN  IF pattern = NoPattern THEN None
        ELSE IF made # None /\ _filter_signal(made[1], step.a.trend) THEN made
        ELSE None

\* C12: the signal analyze returns is a surviving candidate of maximum
\* confidence, and among the candidates of that confidence the one from the
\* most recent candle.
C12_LatestOfTheBest ==
    \A tf \in TIMEFRAMES :
        LET step == tick[tf].last
            Survives(k) == Candidate(step, tf, k) # None
            Conf(k) == Candidate(step, tf, k)[1].confidence
        IN  step.a.ret # None =>
              \E k \in 1..3 :
                  /\ Survives(k)
                  /\ step.a.ret = Candidate(step, tf, k)
                  /\ \A j \in 1..3 : Survives(j) => ~FracLess(Conf(k), Conf(j))
                  /\ \A j \in (k + 1)..3 : Survives(j) => FracLess(Conf(j), Conf(k))

SignalNotices(step) == SelectSeq(step.notices, LAMBDA n : n.title = "signal")

C15_TrendThresholds ==
    \A tf \in TIMEFRAMES :
        LET step == tick[tf].last
            a == step.a
            d == cache[<<step.symbol, higher_tf_map[tf], TrendLimit>>][1]
        IN  a.trend # "" =>
              IF tf \in DOMAIN higher_tf_map
              THEN /\ a.trend = "BULLISH" <=> 100 * d.ema50 > 102 * d.ema200
                   /\ a.trend = "BEARISH" <=> 100 * d.ema50 < 98 * d.ema200
                   /\ a.trend \in {"BULLISH", "BEARISH", "NEUTRAL"}
              ELSE /\ a.trend = "NEUTRAL"
                   /\ \A k \in 1..Len(a.fetched) : a.fetched[k] = <<step.symbol, tf, DefaultLimit>>

\* a pass whose higher-timeframe EMA50 is exactly 1.02 or 0.98 times its EMA200
C15_OnTheThreshold ==
    \E tf \in TIMEFRAMES \cap DOMAIN higher_tf_map :
        LET step == tick[tf].last
            key == <<step.symbol, higher_tf_map[tf], TrendLimit>>
        IN  /\ step.symbol # ""
            /\ step.a.trend = "NEUTRAL"
            /\ cache[key] # NotCached
            /\ 100 * cache[key][1].ema50 \in {102 * cache[key][1].ema200, 98 * cache[key][1].ema200}

C17_AnalyzeSeesServedCandles ==
    \A tf \in TIMEFRAMES :
        LET a == tick[tf].last.a
        IN  a.data # NotCached => a.data = a.offered

\* C18: one call of get_ohlcv makes at most 3 attempts; a call that reached the
\* exchange and succeeded returns what the exchange served on that attempt and
\* caches it; a call that failed 3 times raises, returns no data and leaves
\* nothing in the cache for its key.
C18_BoundedRetries ==
    \A tf \in TIMEFRAMES :
        LET step == tick[tf].last
            a == step.a
            scanKey == <<step.symbol, tf, DefaultLimit>>
        IN  step.symbol # "" =>
              /\ \A k \in 1..Len(a.attempts) : a.attempts[k] <= MaxAttempts
              /\ a.exc = "fetch" =>
                    /\ a.attempts = <<MaxAttempts>>
                    /\ a.data = NotCached
                    /\ cache[scanKey] = NotCached
                    /\ a.ret = None
              /\ a.exc # "fetch" =>
                    /\ a.data # NotCached
                    /\ cache[scanKey] = a.data
                    /\ a.attempts[1] >= 1 => a.data = a.offered
              /\ a.exc = "trend" =>
                    /\ a.attempts[2] = MaxAttempts
                    /\ cache[a.fetched[2]] = NotCached

\* a pass that got its candles on the 3rd attempt, after two failures
C18_ThirdAttempt ==
    \E tf \in TIMEFRAMES :
        LET step == tick[tf].last
        IN  /\ step.symbol # ""
            /\ step.a.exc # "fetch"
            /\ step.a.attempts[1] = MaxAttempts
            /\ step.a.data = step.a.offered

\* C19: for every signal analyze returns, the distance from entry_price to
\* take_profit is three times the distance from entry_price to stop_loss.
C19_ThreeToOne ==
    \A tf \in TIMEFRAMES :
        LET a == tick[tf].last.a
        IN  a.ret # None =>
              Abs(a.ret[1].take_profit - a.ret[1].entry_price)
                  = 3 * Abs(a.ret[1].entry_price - a.ret[1].stop_loss)

\* C20: every signal analyze returns comes from a pin bar (detect_engulfing found
\* nothing in that pass) and has confidence exactly 0.3, which lies in [0.3, 0.9];
\* two candidates of one pass are never told apart by their confidence.
C20_ConfidenceAlwaysFloor ==
    \A tf \in TIMEFRAMES :
        LET a == tick[tf].last.a
        IN  /\ a.engulfed = <<>>
            /\ a.ret # None =>
                  /\ a.detected # <<>>
                  /\ 10 * a.ret[1].confidence.num = 3 * a.ret[1].confidence.den
                  /\ ~FracLess(a.ret[1].confidence, Frac(3, 10))
                  /\ ~FracLess(Frac(9, 10), a.ret[1].confidence)
                  /\ \A k1 \in 1..3, k2 \in 1..3 :
                        Candidate(tick[tf].last, tf, k1) # None /\ Candidate(tick[tf].last, tf, k2) # None
                            => Candidate(tick[tf].last, tf, k1)[1].confidence
                                   = Candidate(tick[tf].last, tf, k2)[1].confidence

\* a pass with two surviving pin-bar candidates, both raised to 0.3 by the clamp,
\* one of which analyze returned
C20_TwoCandidatesAtFloor ==
    \E tf \in TIMEFRAMES :
        LET step == tick[tf].last
        IN  /\ step.a.ret # None
            /\ step.a.ret[1].confidence = Frac(3, 10)
            /\ \E k1 \in 1..3, k2 \in 1..3 :
                  /\ k1 < k2
                  /\ Candidate(step, tf, k1) # None
                  /\ Candidate(step, tf, k2) # None
                  /\ Candidate(step, tf, k1) # Candidate(step, tf, k2)
                  /\ Candidate(step, tf, k1)[1].confidence = Candidate(step, tf, k2)[1].confidence

\* C21: a call of WechatWorkNotifier.send ends with a boolean, and makes at most
\* one token refresh and one resend (two requests in all), whatever the server
\* answers, the token-expired code 42001 at every request included.
C21_OneRefreshOneResend ==
    /\ (wechat.pc = "idle" /\ wechat.calls > 0) => wechat.result \in {<<TRUE>>, <<FALSE>>}
    /\ wechat.refreshes <= 1
    /\ wechat.posts <= 2

\* C22: of the threads that construct DatabaseManager, all get the one instance,
\* _init_db runs once, and no thread is handed the instance before _init_db has
\* finished creating the tables signals and logs.
C22_SingletonReady ==
    /\ manager.created <= 1
    /\ manager.inits <= 1
    /\ \A t \in Threads :
         manager.got[t] # <<>> =>
             /\ manager.created = 1
             /\ manager.inits = 1
             /\ manager.got[t][1].finished
             /\ manager.got[t][1].tables = {"signals", "logs"}

\* C23: the timestamp of a signal analyze returns is the time at which the signal
\* was constructed, so signals constructed at different times, on different
\* ticks, carry different timestamps, ordered like their construction.
C23_TimestampOfConstruction ==
    \A tf1 \in TIMEFRAMES, tf2 \in TIMEFRAMES :
        LET s1 == tick[tf1].last
            s2 == tick[tf2].last
        IN  s1.a.ret # None =>
              /\ s1.a.ret[1].timestamp = s1.at
              /\ (s2.a.ret # None /\ s1.at < s2.at) =>
                    s1.a.ret[1].timestamp < s2.a.ret[1].timestamp
====
